---- MODULE Spec2Model ----
(***************************************************************************)
(* Model of django_redis_sentinel.sentinel.SentinelClient: the connection  *)
(* string parser, the lazily filled write/read client slots, discovery     *)
(* through redis.sentinel.Sentinel, close() and the exception_check        *)
(* decorator installed on the cache operations.                            *)
(*                                                                         *)
(* Python str values are sequences of one-character strings, so that       *)
(* str.split, int() and the %-formatting of the connection url are         *)
(* computed and not assumed.                                               *)
(***************************************************************************)
EXTENDS Integers, Sequences, FiniteSets, TLC

VARIABLES
    connection_string,   \* self._connection_string
    client_write,        \* self._client_write
    client_read,         \* self._client_read
    PASSWORD,            \* self._options.get('PASSWORD', None)
    CLOSE_CONNECTION,    \* settings.DJANGO_REDIS_CLOSE_CONNECTION
    nextId,              \* identity of the next object connection_factory.connect builds
    lastCall,            \* observation of the entry point that ran last
    cachedSince,         \* per mode: the client returned since close() was last called
    builtSince,          \* the modes connect() has built a client for since then
    stale,               \* after a ConnectionResetError left a wrapper: what was cached then
    constring,           \* argument of parse_connection_string (parser specification)
    origin,              \* the fields constring was written from, when it was
    parsed,              \* what parse_connection_string(constring) gave
    threads,             \* per thread: where it stands in get_client or close, its locals
    made                 \* the (client, write) pairs connect() has built (threads)

vars == <<connection_string, client_write, client_read, PASSWORD, CLOSE_CONNECTION,
          nextId, lastCall, cachedSince, builtSince, stale, constring, origin, parsed,
          threads, made>>

None == "None"

\* ------------------------------------------------------------------ bounds
MaxLen == 5        \* longest typed parser input enumerated exhaustively
MaxEndpoints == 2  \* monitor endpoints in a written descriptor
MaxConns == 2      \* connections the factory builds in one behaviour
MaxPool == 2       \* idle connections one client's pool holds
MaxDepth == 2      \* wrapped operations nested in one call (add -> set)

\* ------------------------------------------------------------ Python str
Digits == <<"0", "1", "2", "3", "4", "5", "6", "7", "8", "9">>

IsDigit(c) == \E d \in 1..10 : Digits[d] = c

DigitVal(c) == (CHOOSE d \in 1..10 : Digits[d] = c) - 1

\* str.split(sep) with an explicit separator: one more piece than there are
\* separators, empty pieces kept.
RECURSIVE split(_, _)
split(s, sep) ==
    IF \A i \in 1..Len(s) : s[i] # sep
    THEN <<s>>
    ELSE LET i == CHOOSE k \in 1..Len(s) :
                     s[k] = sep /\ \A j \in 1..(k - 1) : s[j] # sep
         IN <<SubSeq(s, 1, i - 1)>> \o split(SubSeq(s, i + 1, Len(s)), sep)

RECURSIVE DigitsValue(_)
DigitsValue(s) ==
    IF s = <<>> THEN 0
    ELSE 10 * DigitsValue(SubSeq(s, 1, Len(s) - 1)) + DigitVal(s[Len(s)])

\* int(s) accepts an optional sign followed by decimal digits.
IntAccepts(s) ==
    LET body == IF s # <<>> /\ s[1] \in {"-", "+"} THEN Tail(s) ELSE s
    IN body # <<>> /\ \A i \in 1..Len(body) : IsDigit(body[i])

int(s) ==
    IF s[1] = "-" THEN 0 - DigitsValue(Tail(s))
    ELSE IF s[1] = "+" THEN DigitsValue(Tail(s))
    ELSE DigitsValue(s)

\* "%s" % n for an integer n.
RECURSIVE NatStr(_)
NatStr(n) == IF n < 10 THEN <<Digits[n + 1]>> ELSE NatStr(n \div 10) \o <<Digits[(n % 10) + 1]>>

str(n) == IF n < 0 THEN <<"-">> \o NatStr(0 - n) ELSE NatStr(n)

\* --------------------------------------------- parse_connection_string
Raised(e) == [exc |-> e]

\* Mutant: items after the second are ignored instead of refused.
UnpackOk_TwoOrMore(servers) ==
    \A i \in 1..Len(servers) : Len(servers[i]) >= 2 /\ IntAccepts(servers[i][2])

\* "for host, port in servers": every element must have exactly two items, and
\* int(port) must accept the second.
UnpackOk(servers) ==
    \A i \in 1..Len(servers) : Len(servers[i]) = 2 /\ IntAccepts(servers[i][2])

parse_connection_string(cs) ==
    LET connection_params == split(cs, "/")
    IN IF Len(connection_params) < 2
       THEN Raised("ImproperlyConfigured")                \* IndexError, line 63
       ELSE LET parts == split(connection_params[2], ",")
                servers == [i \in 1..Len(parts) |-> split(parts[i], ":")]
            IN IF ~UnpackOk(servers)
               THEN Raised("ImproperlyConfigured")        \* ValueError, line 64
               ELSE IF Len(connection_params) < 3
               THEN Raised("ImproperlyConfigured")        \* IndexError, line 65
               ELSE [exc |-> None,
                     master_name |-> connection_params[1],
                     sentinel_hosts |->
                         [i \in 1..Len(servers) |-> <<servers[i][1], int(servers[i][2])>>],
                     db |-> connection_params[3]]

\* ------------------------------------------------------------ collaborators
\* Endpoints redis.sentinel.Sentinel reports: (host, port).
Endpoints == {<<<<"h", "1">>, 1>>, <<<<"h", "2">>, 2>>, <<<<"h", "3">>, 3>>}

NoEndpoint == <<<<>>, 0>>

\* discover_master: an endpoint, or MasterNotFoundError.
MasterAnswers ==
    {[exc |-> None, endpoint |-> e] : e \in {f \in Endpoints : f[2] = 1}}
    \cup {[exc |-> "MasterNotFoundError", endpoint |-> NoEndpoint]}

\* discover_slaves: a list of endpoints, possibly empty.
SlaveAnswers ==
    LET replicas == <<<<<<"h", "2">>, 2>>, <<<<"h", "3">>, 3>>>>
    IN {SubSeq(replicas, n, Len(replicas)) : n \in 1..(Len(replicas) + 1)}

\* What one call of connect() meets: the answers of the monitor, the index
\* random.choice draws and the exception connection_factory.connect raises.
Monitors ==
    [master : MasterAnswers, slaves : SlaveAnswers, choice : 1..2,
     factory : {None, "ValueError"}]

SENTINEL_TIMEOUT == 1

\* The object connection_factory.connect(url) returns: its identity and the
\* number of connections in its connection_pool._available_connections.
\* NoneClient stands for Python's None in a slot.
Client(id) == [id |-> id, available |-> 0]

NoneClient == Client(0)

NoMonitor ==
    [master |-> [exc |-> "MasterNotFoundError", endpoint |-> NoEndpoint],
     slaves |-> <<>>, choice |-> 1, factory |-> None]

\* A monitor that knows the master and no slave, and a factory that connects.
HealthyMonitor ==
    [master |-> [exc |-> None, endpoint |-> <<<<"h", "1">>, 1>>],
     slaves |-> <<>>, choice |-> 1, factory |-> None]

\* The same, without the answers that differ only where a call does not look:
\* a healthy monitor while the slot is filled, no replica list for a write, no
\* index into a list of one or none, no master when there are slaves, no
\* factory when discovery raises.
Met(slot, write) ==
    {mon \in Monitors :
        /\ slot # NoneClient => mon = HealthyMonitor
        /\ write => mon.slaves = <<>>
        /\ Len(mon.slaves) < 2 => mon.choice = 1
        /\ (~write /\ mon.slaves # <<>>) => mon.master.exc # None
        /\ (mon.slaves = <<>> /\ mon.master.exc # None) => mon.factory = None}

\* An option that may be absent: options.get(name, None).
NoneOption == [set |-> FALSE, value |-> <<>>]

Option(v) == [set |-> TRUE, value |-> v]

\* Python truth value of an option: None and "" are both false.
Truthy(o) == o.set /\ o.value # <<>>

\* ------------------------------------------------------------------ connect
connection_url(password, host, port, db) ==
    IF Truthy(password)
    THEN <<"r", "e", "d", "i", "s", ":", "/", "/", ":">> \o password.value \o <<"@">>
             \o host \o <<":">> \o str(port) \o <<"/">> \o db
    ELSE <<"r", "e", "d", "i", "s", ":", "/", "/">>
             \o host \o <<":">> \o str(port) \o <<"/">> \o db

\* Mutant: a write takes the read path.
discover_WriteReadsSlaves(write, mon) ==
    IF mon.slaves # <<>>
    THEN [queries |-> <<"discover_slaves">>,
          exc |-> None,
          endpoint |-> mon.slaves[IF mon.choice <= Len(mon.slaves) THEN mon.choice ELSE 1]]
    ELSE [queries |-> <<"discover_slaves", "discover_master">>,
          exc |-> mon.master.exc, endpoint |-> mon.master.endpoint]

\* Mutant: the IndexError of random.choice on an empty list is not handled.
discover_NoFallback(write, mon) ==
    IF write
    THEN [queries |-> <<"discover_master">>,
          exc |-> mon.master.exc, endpoint |-> mon.master.endpoint]
    ELSE IF mon.slaves # <<>>
    THEN [queries |-> <<"discover_slaves">>,
          exc |-> None,
          endpoint |-> mon.slaves[IF mon.choice <= Len(mon.slaves) THEN mon.choice ELSE 1]]
    ELSE [queries |-> <<"discover_slaves">>, exc |-> "IndexError", endpoint |-> NoEndpoint]

\* Lines 106-113: the queries made, in order, and the endpoint they give.
discover(write, mon) ==
    IF write
    THEN [queries |-> <<"discover_master">>,
          exc |-> mon.master.exc, endpoint |-> mon.master.endpoint]
    ELSE IF mon.slaves # <<>>
    THEN [queries |-> <<"discover_slaves">>,
          exc |-> None,
          endpoint |-> mon.slaves[IF mon.choice <= Len(mon.slaves) THEN mon.choice ELSE 1]]
    ELSE [queries |-> <<"discover_slaves", "discover_master">>,    \* IndexError
          exc |-> mon.master.exc, endpoint |-> mon.master.endpoint]

NoSentinel == [built |-> FALSE, hosts |-> <<>>, socket_timeout |-> 0, password |-> NoneOption]

NoConnect ==
    [called |-> FALSE, exc |-> None, sentinel |-> NoSentinel, mon |-> NoMonitor,
     queries |-> <<>>, endpoint |-> NoEndpoint, url |-> <<>>, client |-> NoneClient]

\* Mutant: the client is connected to the first sentinel of the descriptor.
connect_UsesSentinelHost(cs, password, id, write, mon) ==
    LET p == parse_connection_string(cs)
        c0 == [NoConnect EXCEPT !.called = TRUE]
    IN IF p.exc # None
       THEN [c0 EXCEPT !.exc = p.exc]
       ELSE LET sentinel == [built |-> TRUE, hosts |-> p.sentinel_hosts,
                             socket_timeout |-> SENTINEL_TIMEOUT,
                             password |-> password]
                d == discover(write, mon)
                c1 == [c0 EXCEPT !.sentinel = sentinel, !.mon = mon,
                                 !.queries = d.queries]
            IN IF d.exc # None
               THEN [c1 EXCEPT !.exc = d.exc]
               ELSE LET url == connection_url(password, p.sentinel_hosts[1][1],
                                              p.sentinel_hosts[1][2], p.db)
                        c2 == [c1 EXCEPT !.endpoint = d.endpoint, !.url = url]
                    IN IF mon.factory # None
                       THEN [c2 EXCEPT !.exc = mon.factory]
                       ELSE [c2 EXCEPT !.client = Client(id)]

\* connect(write): the exception raised (None when it returns), the Sentinel
\* built, the queries sent to it, the url handed to the factory and the client.
connect(cs, password, id, write, mon) ==
    LET p == parse_connection_string(cs)
        c0 == [NoConnect EXCEPT !.called = TRUE]
    IN IF p.exc # None
       THEN [c0 EXCEPT !.exc = p.exc]
       ELSE LET sentinel == [built |-> TRUE, hosts |-> p.sentinel_hosts,
                             socket_timeout |-> SENTINEL_TIMEOUT,
                             password |-> password]
                d == discover(write, mon)
                c1 == [c0 EXCEPT !.sentinel = sentinel, !.mon = mon,
                                 !.queries = d.queries]
            IN IF d.exc # None
               THEN [c1 EXCEPT !.exc = d.exc]
               ELSE LET url == connection_url(password, d.endpoint[1], d.endpoint[2], p.db)
                        c2 == [c1 EXCEPT !.endpoint = d.endpoint, !.url = url]
                    IN IF mon.factory # None
                       THEN [c2 EXCEPT !.exc = mon.factory]
                       ELSE [c2 EXCEPT !.client = Client(id)]

\* --------------------------------------------------------------- get_client
\* Mutant: the slot is not looked at; every call connects.
get_client_NoCache(m, cs, password, write, mon) ==
    LET c == connect(cs, password, m.nextId, write, mon)
    IN IF c.exc # None
       THEN [m |-> m, exc |-> c.exc, ret |-> 0, connect |-> c]
       ELSE [m |-> IF write
                   THEN [m EXCEPT !.client_write = c.client, !.nextId = @ + 1]
                   ELSE [m EXCEPT !.client_read = c.client, !.nextId = @ + 1],
             exc |-> None, ret |-> c.client.id, connect |-> c]

\* Mutant: one attribute serves both modes.
get_client_OneSlot(m, cs, password, write, mon) ==
    LET slot == IF write THEN m.client_write ELSE m.client_read
    IN IF slot # NoneClient
       THEN [m |-> m, exc |-> None, ret |-> slot.id, connect |-> NoConnect]
       ELSE LET c == connect(cs, password, m.nextId, write, mon)
            IN IF c.exc # None
               THEN [m |-> m, exc |-> c.exc, ret |-> 0, connect |-> c]
               ELSE [m |-> [m EXCEPT !.client_write = c.client, !.client_read = c.client,
                                     !.nextId = @ + 1],
                     exc |-> None, ret |-> c.client.id, connect |-> c]

\* The manager is [client_write, client_read, nextId].  get_client gives the
\* manager afterwards, the exception raised (or None), the identity of the
\* client returned (show_index only pairs that client with 0) and what the
\* call of connect() did, when there was one.
get_client(m, cs, password, write, mon) ==
    LET slot == IF write THEN m.client_write ELSE m.client_read
    IN IF slot # NoneClient
       THEN [m |-> m, exc |-> None, ret |-> slot.id, connect |-> NoConnect]
       ELSE LET c == connect(cs, password, m.nextId, write, mon)
            IN IF c.exc # None
               THEN [m |-> m, exc |-> c.exc, ret |-> 0, connect |-> c]
               ELSE [m |-> IF write
                           THEN [m EXCEPT !.client_write = c.client, !.nextId = @ + 1]
                           ELSE [m EXCEPT !.client_read = c.client, !.nextId = @ + 1],
                     exc |-> None, ret |-> c.client.id, connect |-> c]

\* -------------------------------------------------------------------- close
\* The c.disconnect() calls of one loop over client.connection_pool.
DisconnectCalls(client) ==
    IF client # NoneClient THEN {<<client.id, k>> : k \in 1..client.available} ELSE {}

\* Mutant: the pools are disconnected but the slots are not reset to None.
close_KeepsSlots(m, flag) ==
    IF flag
    THEN [m |-> m,
          disconnects |-> DisconnectCalls(m.client_read) \cup DisconnectCalls(m.client_write)]
    ELSE [m |-> m, disconnects |-> {}]

\* close(): the manager afterwards and the disconnect() calls made.
close(m, flag) ==
    IF flag
    THEN [m |-> [m EXCEPT !.client_write = NoneClient, !.client_read = NoneClient],
          disconnects |-> DisconnectCalls(m.client_read) \cup DisconnectCalls(m.client_write)]
    ELSE [m |-> m, disconnects |-> {}]

\* ---------------------------------------------------------- exception_check
\* The exception classes that reach the wrapper, each with its base class.
\* ConnectionError on line 31 is the builtin one: the module imports no other.
Base(e) ==
    CASE e = "ConnectionResetError" -> "ConnectionError"
      [] e = "ConnectionError" -> "OSError"
      [] e = "TimeoutError" -> "OSError"
      [] e = "ReadOnlyError" -> "ResponseError"
      [] e = "MasterNotFoundError" -> "redis.ConnectionError"
      [] e = "ImproperlyConfigured" -> "Exception"
      [] e = "ConnectionInterrupted" -> "Exception"
      [] e = "ValueError" -> "Exception"
      [] OTHER -> "Exception"

RECURSIVE isinstance(_, _)
isinstance(e, cls) ==
    IF e = cls THEN TRUE
    ELSE IF e \in {"Exception", None} THEN FALSE
    ELSE isinstance(Base(e), cls)

\* except (ConnectionError, ReadOnlyError, ConnectionInterrupted)
ExceptClause == {"ConnectionError", "ReadOnlyError", "ConnectionInterrupted"}

\* Mutant: the clause is "except Exception".
Caught_Exception(e) == e # None

\* Mutant: the clause matches the named classes only, not their subclasses.
Caught_ExactClass(e) == e \in ExceptClause

Caught(e) == \E cls \in ExceptClause : isinstance(e, cls)

\* What a wrapped cache operation of DefaultClient may raise once it holds its
\* client (None: it returns).
OperationErrors ==
    {None, "ConnectionError", "ConnectionResetError", "ReadOnlyError",
     "ConnectionInterrupted", "ValueError"}

\* The outcomes of the command that differ: none when get_client raised, and a
\* pool that holds no connection yet always makes one.
Commands(g, write) ==
    {cmd \in [fresh : BOOLEAN, outcome : OperationErrors] :
        /\ g.exc # None => cmd.outcome = None
        /\ LET slot == IF write THEN g.m.client_write ELSE g.m.client_read
           IN (g.exc # None \/ slot.available = 0 \/ slot.available >= MaxPool)
                  => ~cmd.fresh}

\* The command one operation runs on its client: a connection is taken from
\* the pool, or made when the pool is empty or fresh says so, and released to
\* the pool afterwards.
Execute(client, fresh) ==
    [client EXCEPT !.available =
        IF @ = 0 \/ (fresh /\ @ < MaxPool) THEN @ + 1 ELSE @]

\* The body of a cache operation (func on line 30): get_client(write), which
\* gave g, then the command.  The result keeps what get_client did and starts
\* the record of the wrappers around it.
Operation(g, write, fresh, outcome) ==
    LET r0 == [m |-> g.m, exc |-> g.exc, get |-> [g EXCEPT !.m = 0], atFailure |-> g.m,
               raised |-> g.exc, frames |-> <<>>, closes |-> 0, disconnects |-> {}]
    IN IF g.exc # None
       THEN r0
       ELSE LET m1 == IF write
                      THEN [g.m EXCEPT !.client_write = Execute(@, fresh)]
                      ELSE [g.m EXCEPT !.client_read = Execute(@, fresh)]
            IN [r0 EXCEPT !.m = m1, !.exc = outcome, !.raised = outcome, !.atFailure = m1]

\* wrapper (lines 28-33) around a func whose run gave r.
wrapper(r, flag) ==
    IF Caught(r.exc)
    THEN LET c == close(r.m, flag)
         IN [r EXCEPT !.m = c.m,
                      !.exc = "ConnectionResetError",
                      !.closes = @ + 1,
                      !.disconnects = @ \cup c.disconnects,
                      !.frames = Append(@, [raised |-> r.exc, closes |-> 1,
                                            exc |-> "ConnectionResetError"])]
    ELSE [r EXCEPT !.frames = Append(@, [raised |-> r.exc, closes |-> 0, exc |-> r.exc])]

\* A wrapped operation whose body is, depth - 1 times, a call of another
\* wrapped operation of the same instance (add calls self.set).
RECURSIVE Wrapped(_, _, _)
Wrapped(depth, r, flag) ==
    IF depth = 0 THEN r ELSE wrapper(Wrapped(depth - 1, r, flag), flag)

\* ------------------------------------------------------------------- state
Manager == [client_write |-> client_write, client_read |-> client_read, nextId |-> nextId]

NoManager == [client_write |-> NoneClient, client_read |-> NoneClient, nextId |-> 0]

Slots(m) == [client_write |-> m.client_write, client_read |-> m.client_read]

CachedIds(m) == {m.client_write.id, m.client_read.id} \ {0}

NoGet == [m |-> 0, exc |-> None, ret |-> 0, connect |-> NoConnect]

NoStale == [cached |-> {}, pending |-> {}]

\* The observation of a call, before its own fields are filled in.
Observation(op, write) ==
    [op |-> op, write |-> write,
     pre |-> IF op = "close" THEN Slots(Manager) ELSE Slots(NoManager),
     afterClose |-> lastCall.endsInClose,
     cachedBefore |-> cachedSince[write],
     staleHit |-> write \in stale.pending,
     staleFor |-> IF write \in stale.pending THEN stale.cached ELSE {},
     got |-> FALSE, get |-> NoGet,
     depth |-> 0, raised |-> None, frames |-> <<>>,
     exc |-> None, closes |-> 0, disconnects |-> {}, endsInClose |-> FALSE]

\* cluster1/h1:1,h2:2/3
Cluster1 ==
    <<"c", "l", "u", "s", "t", "e", "r", "1", "/",
      "h", "1", ":", "1", ",", "h", "2", ":", "2", "/", "3">>

\* cluster1/h1:1,h2:2/3, m/bad/0, m/a:x/0 and m/a:1
Descriptors ==
    {Cluster1,
     <<"m", "/", "b", "a", "d", "/", "0">>,
     <<"m", "/", "a", ":", "x", "/", "0">>,
     <<"m", "/", "a", ":", "1">>}

\* PASSWORD absent, the empty string, and "pw".
Passwords == {NoneOption, Option(<<>>), Option(<<"p", "w">>)}

\* The settings of one process: PASSWORD and DJANGO_REDIS_CLOSE_CONNECTION.
\* Every password and each value of the flag occurs; connect() is the only
\* reader of the first (lines 101-118) and close() of the second (line 126).
Settings ==
    {st \in Passwords \X BOOLEAN : st[1] = NoneOption \/ st[2] = (st[1].value # <<>>)}

NotParsed == [exc |-> "NotParsed"]

\* The threads of one process that share the instance.
Threads == {"t1", "t2"}

\* A thread outside any call, and the locals of a call: the mode asked for,
\* the client connect() returned, the value returned and the exception raised.
\* sawEmpty, replaced and cleared record what the call met: an empty slot at
\* its check, the client its assignment overwrote, and a close() of another
\* thread removing or resetting its slot after the check.
IdleThread ==
    [pc |-> "idle", op |-> "none", write |-> FALSE, built |-> 0, ret |-> 0, exc |-> None,
     sawEmpty |-> FALSE, replaced |-> 0, cleared |-> FALSE]

Init ==
    /\ connection_string \in Descriptors
    /\ client_write = NoneClient
    /\ client_read = NoneClient
    /\ \E st \in Settings : PASSWORD = st[1] /\ CLOSE_CONNECTION = st[2]
    /\ nextId = 1
    /\ cachedSince = [w \in BOOLEAN |-> 0]
    /\ builtSince = {}
    /\ stale = NoStale
    /\ lastCall = [op |-> "init", write |-> FALSE,
                   pre |-> [client_write |-> NoneClient, client_read |-> NoneClient],
                   afterClose |-> FALSE, cachedBefore |-> 0,
                   staleHit |-> FALSE, staleFor |-> {},
                   got |-> FALSE, get |-> NoGet,
                   depth |-> 0, raised |-> None, frames |-> <<>>,
                   exc |-> None, closes |-> 0, disconnects |-> {}, endsInClose |-> FALSE]
    /\ constring = <<>>
    /\ origin = {}
    /\ parsed = NotParsed
    /\ threads = [t \in Threads |-> IdleThread]
    /\ made = {}

\* ----------------------------------------------------------------- actions
SetManager(m) ==
    /\ client_write' = m.client_write
    /\ client_read' = m.client_read
    /\ nextId' = m.nextId

\* get_client(write), called from outside any wrapper.
GetClient ==
    \E write \in BOOLEAN :
      \E mon \in Met(IF write THEN client_write ELSE client_read, write) :
        \E g \in {get_client(Manager, connection_string, PASSWORD, write, mon)} :
           /\ g.m.nextId <= MaxConns + 1
           /\ SetManager(g.m)
           /\ lastCall' = [Observation("get_client", write) EXCEPT
                               !.got = TRUE, !.get = [g EXCEPT !.m = 0], !.exc = g.exc]
           /\ cachedSince' = IF g.exc = None THEN [cachedSince EXCEPT ![write] = g.ret]
                             ELSE cachedSince
           /\ builtSince' = IF g.connect.client # NoneClient THEN builtSince \cup {write}
                            ELSE builtSince
           /\ stale' = IF stale.pending \ {write} = {} THEN NoStale
                       ELSE [stale EXCEPT !.pending = @ \ {write}]
           /\ UNCHANGED <<connection_string, PASSWORD, CLOSE_CONNECTION,
                          constring, origin, parsed, threads, made>>

\* close(), called from outside any wrapper.
Close ==
    \E c \in {close(Manager, CLOSE_CONNECTION)} :
       /\ SetManager(c.m)
       /\ lastCall' = [Observation("close", FALSE) EXCEPT
                           !.closes = 1, !.disconnects = c.disconnects,
                           !.endsInClose = TRUE,
                           !.cachedBefore = 0, !.staleHit = FALSE, !.staleFor = {}]
       /\ cachedSince' = [w \in BOOLEAN |-> 0]
       /\ builtSince' = {}
       /\ UNCHANGED <<connection_string, PASSWORD, CLOSE_CONNECTION, stale,
                      constring, origin, parsed, threads, made>>

\* One of the operations __init__ wraps (lines 47-52), called from outside.
Call ==
    \E write \in BOOLEAN :
      \E mon \in Met(IF write THEN client_write ELSE client_read, write) :
       \E g \in {get_client(Manager, connection_string, PASSWORD, write, mon)} :
        \E cmd \in Commands(g, write), depth \in 1..MaxDepth :
         \E r \in {Wrapped(depth, Operation(g, write, cmd.fresh, cmd.outcome),
                           CLOSE_CONNECTION)} :
           /\ r.m.nextId <= MaxConns + 1
           /\ SetManager(r.m)
           /\ lastCall' = [Observation("call", write) EXCEPT
                               !.got = TRUE, !.get = r.get, !.depth = depth,
                               !.raised = r.raised, !.frames = r.frames,
                               !.exc = r.exc, !.closes = r.closes,
                               !.disconnects = r.disconnects,
                               !.endsInClose = (r.closes > 0)]
           /\ cachedSince' = IF r.closes > 0 THEN [w \in BOOLEAN |-> 0]
                             ELSE IF r.get.exc = None
                             THEN [cachedSince EXCEPT ![write] = r.get.ret]
                             ELSE cachedSince
           /\ builtSince' = IF r.closes > 0 THEN {}
                            ELSE IF g.connect.client # NoneClient
                            THEN builtSince \cup {write}
                            ELSE builtSince
           /\ stale' = IF r.closes > 0
                       THEN [cached |-> CachedIds(r.atFailure), pending |-> BOOLEAN]
                       ELSE IF stale.pending \ {write} = {} THEN NoStale
                       ELSE [stale EXCEPT !.pending = @ \ {write}]
           /\ UNCHANGED <<connection_string, PASSWORD, CLOSE_CONNECTION,
                          constring, origin, parsed, threads, made>>

Next == GetClient \/ Close \/ Call

Spec == Init /\ [][Next]_vars

\* ------------------------------------------------ the parser on its inputs
\* parse_connection_string applied to every string of at most MaxLen
\* characters, to descriptors written out from their fields, and to those
\* descriptors with one character deleted, replaced or inserted.
Alphabet == {"a", "1", "/", ":", ",", "-"}

EndpointLists ==
    LET eps == {<<"a">>, <<"b", "1">>} \X {1, 26}
    IN UNION {[1..n -> eps] : n \in 1..MaxEndpoints}

Fields ==
    [master_name : {<<"m">>}, sentinel_hosts : EndpointLists, db : {<<"0">>, <<"d", "b">>}]

\* The documented example: mymaster/host:1234/0
ExampleFields ==
    [master_name |-> <<"m", "y", "m", "a", "s", "t", "e", "r">>,
     sentinel_hosts |-> <<<<<<"h", "o", "s", "t">>, 1234>>>>,
     db |-> <<"0">>]

\* mymaster/bad/0
ExampleBad ==
    <<"m", "y", "m", "a", "s", "t", "e", "r", "/", "b", "a", "d", "/", "0">>

RECURSIVE JoinEndpoints(_)
JoinEndpoints(hosts) ==
    IF hosts = <<>> THEN <<>>
    ELSE hosts[1][1] \o <<":">> \o str(hosts[1][2])
             \o (IF Len(hosts) > 1 THEN <<",">> \o JoinEndpoints(Tail(hosts)) ELSE <<>>)

\* master_name/host:port,host:port/db
Build(f) == f.master_name \o <<"/">> \o JoinEndpoints(f.sentinel_hosts) \o <<"/">> \o f.db

ManagerIdle ==
    UNCHANGED <<connection_string, client_write, client_read, PASSWORD, CLOSE_CONNECTION,
                nextId, lastCall, cachedSince, builtSince, stale, threads, made>>

InitInputs ==
    /\ connection_string = ExampleBad
    /\ client_write = NoneClient
    /\ client_read = NoneClient
    /\ PASSWORD = NoneOption
    /\ CLOSE_CONNECTION = FALSE
    /\ nextId = 1
    /\ cachedSince = [w \in BOOLEAN |-> 0]
    /\ builtSince = {}
    /\ stale = NoStale
    /\ lastCall = [op |-> "init", write |-> FALSE,
                   pre |-> [client_write |-> NoneClient, client_read |-> NoneClient],
                   afterClose |-> FALSE, cachedBefore |-> 0,
                   staleHit |-> FALSE, staleFor |-> {},
                   got |-> FALSE, get |-> NoGet,
                   depth |-> 0, raised |-> None, frames |-> <<>>,
                   exc |-> None, closes |-> 0, disconnects |-> {}, endsInClose |-> FALSE]
    /\ parsed = NotParsed
    /\ threads = [t \in Threads |-> IdleThread]
    /\ made = {}
    /\ \/ constring \in {<<>>, ExampleBad} /\ origin = {}
       \/ \E f \in Fields \cup {ExampleFields} : constring = Build(f) /\ origin = {f}

TypeChar ==
    \E ch \in Alphabet :
        /\ parsed = NotParsed /\ origin = {} /\ Len(constring) < MaxLen
        /\ constring' = Append(constring, ch)
        /\ UNCHANGED <<origin, parsed>>
        /\ ManagerIdle

DeleteChar ==
    \E i \in 1..Len(constring) :
        /\ parsed = NotParsed /\ origin # {}
        /\ constring' = SubSeq(constring, 1, i - 1) \o SubSeq(constring, i + 1, Len(constring))
        /\ origin' = {}
        /\ UNCHANGED parsed
        /\ ManagerIdle

ReplaceChar ==
    \E i \in 1..Len(constring), ch \in Alphabet :
        /\ parsed = NotParsed /\ origin # {} /\ constring[i] # ch
        /\ constring' = [constring EXCEPT ![i] = ch]
        /\ origin' = {}
        /\ UNCHANGED parsed
        /\ ManagerIdle

InsertChar ==
    \E i \in 0..Len(constring), ch \in Alphabet :
        /\ parsed = NotParsed /\ origin # {}
        /\ constring' = SubSeq(constring, 1, i) \o <<ch>> \o SubSeq(constring, i + 1, Len(constring))
        /\ origin' = {}
        /\ UNCHANGED parsed
        /\ ManagerIdle

Parse ==
    /\ parsed = NotParsed
    /\ parsed' = parse_connection_string(constring)
    /\ UNCHANGED <<constring, origin>>
    /\ ManagerIdle

NextParse == TypeChar \/ DeleteChar \/ ReplaceChar \/ InsertChar \/ Parse

SpecParse == InitInputs /\ [][NextParse]_vars

\* --------------------------------------- two threads sharing one instance
\* get_client and close run by threads that the interpreter switches between
\* attribute reads and writes.  Each action below is one such read or write;
\* connect() touches no attribute of the instance and is one step.

\* The slot attribute after del (lines 138-139): reading it raises
\* AttributeError until line 140 or 141 assigns it again.
Deleted == [id |-> 0 - 1, available |-> 0]

\* "is None" on lines 81 and 86.
check_slot(m, write) ==
    LET slot == IF write THEN m.client_write ELSE m.client_read
    IN IF slot = Deleted THEN "AttributeError"
       ELSE IF slot = NoneClient THEN "connect"
       ELSE "return"

\* Mutant: the assignment is skipped when the slot has been filled meanwhile.
store_slot_IfEmpty(m, write, client) ==
    IF (IF write THEN m.client_write ELSE m.client_read) # NoneClient THEN m
    ELSE IF write THEN [m EXCEPT !.client_write = client]
    ELSE [m EXCEPT !.client_read = client]

\* Mutant: the client is assigned to the slot of the other mode.
store_slot_OtherMode(m, write, client) ==
    IF write THEN [m EXCEPT !.client_read = client]
    ELSE [m EXCEPT !.client_write = client]

\* The assignments of lines 82 and 87.
store_slot(m, write, client) ==
    IF write THEN [m EXCEPT !.client_write = client]
    ELSE [m EXCEPT !.client_read = client]

\* The reads of lines 84 and 89.
read_slot(m, write) == IF write THEN m.client_write ELSE m.client_read

\* if self._client_read: / if self._client_write: (lines 128, 133)
truth_slot(m, write) ==
    LET slot == IF write THEN m.client_write ELSE m.client_read
    IN IF slot = Deleted THEN "AttributeError"
       ELSE IF slot = NoneClient THEN "skip"
       ELSE "loop"

\* The loops of lines 129-130 and 134-135 read the attribute once more.
loop_slot(m, write) ==
    LET slot == IF write THEN m.client_write ELSE m.client_read
    IN IF slot \in {Deleted, NoneClient}
       THEN [exc |-> "AttributeError", disconnects |-> {}]
       ELSE [exc |-> None, disconnects |-> DisconnectCalls(slot)]

\* del(self._client_write), del(self._client_read)
del_slot(m, write) ==
    LET slot == IF write THEN m.client_write ELSE m.client_read
    IN IF slot = Deleted THEN [exc |-> "AttributeError", m |-> m]
       ELSE [exc |-> None,
             m |-> IF write THEN [m EXCEPT !.client_write = Deleted]
                   ELSE [m EXCEPT !.client_read = Deleted]]

\* self._client_write = None, self._client_read = None
clear_slot(m, write) ==
    IF write THEN [m EXCEPT !.client_write = NoneClient]
    ELSE [m EXCEPT !.client_read = NoneClient]

\* The statement of close() after the one at pc.
AfterClose(pc) ==
    CASE pc = "read_truth" -> "write_truth"
      [] pc = "read_loop" -> "write_truth"
      [] pc = "write_truth" -> "del_write"
      [] pc = "write_loop" -> "del_write"
      [] pc = "del_write" -> "del_read"
      [] pc = "del_read" -> "set_write"
      [] pc = "set_write" -> "set_read"
      [] OTHER -> "done"

ThreadsIdle ==
    UNCHANGED <<connection_string, PASSWORD, CLOSE_CONNECTION, lastCall, cachedSince,
                builtSince, stale, constring, origin, parsed>>

Finished(th, e) == [th EXCEPT !.pc = "done", !.exc = e]

\* The threads of the other calls, with those marked whose slot of mode write
\* a close() has just removed or reset after their check.
Clearing(t, write) ==
    [u \in Threads |->
        IF /\ u # t
           /\ threads[u].op = "get_client"
           /\ threads[u].write = write
           /\ threads[u].pc \in {"connect", "store", "return", "done"}
        THEN [threads[u] EXCEPT !.cleared = TRUE]
        ELSE threads[u]]

InitThreads ==
    /\ connection_string = Cluster1
    /\ client_write = NoneClient
    /\ client_read = NoneClient
    /\ PASSWORD = NoneOption
    /\ CLOSE_CONNECTION \in BOOLEAN
    /\ nextId = 1
    /\ cachedSince = [w \in BOOLEAN |-> 0]
    /\ builtSince = {}
    /\ stale = NoStale
    /\ lastCall = [op |-> "init", write |-> FALSE,
                   pre |-> [client_write |-> NoneClient, client_read |-> NoneClient],
                   afterClose |-> FALSE, cachedBefore |-> 0,
                   staleHit |-> FALSE, staleFor |-> {},
                   got |-> FALSE, get |-> NoGet,
                   depth |-> 0, raised |-> None, frames |-> <<>>,
                   exc |-> None, closes |-> 0, disconnects |-> {}, endsInClose |-> FALSE]
    /\ constring = <<>>
    /\ origin = {}
    /\ parsed = NotParsed
    /\ threads = [t \in Threads |-> IdleThread]
    /\ made = {}

\* A thread calls get_client(write) or close().
Begin ==
    \E t \in Threads :
        /\ threads[t].pc \in {"idle", "done"}
        /\ \/ \E write \in BOOLEAN :
                 threads' = [threads EXCEPT ![t] =
                     [IdleThread EXCEPT !.pc = "check", !.op = "get_client",
                                        !.write = write]]
           \/ threads' = [threads EXCEPT ![t] =
                     [IdleThread EXCEPT !.pc = "close_if", !.op = "close"]]
        /\ UNCHANGED <<client_write, client_read, nextId, made>>
        /\ ThreadsIdle

\* Lines 81, 86: if self._client_write is None.
Check ==
    \E t \in Threads :
        /\ threads[t].pc = "check"
        /\ \E r \in {check_slot(Manager, threads[t].write)} :
               threads' = [threads EXCEPT ![t] =
                   IF r = "AttributeError" THEN Finished(@, "AttributeError")
                   ELSE [@ EXCEPT !.pc = r, !.sawEmpty = (r = "connect")]]
        /\ UNCHANGED <<client_write, client_read, nextId, made>>
        /\ ThreadsIdle

\* self.connect(write), the right-hand side of lines 82 and 87.
Connect ==
    \E t \in Threads :
        /\ threads[t].pc = "connect"
        /\ \E mon \in Met(NoneClient, threads[t].write) :
            \E c \in {connect(connection_string, PASSWORD, nextId, threads[t].write, mon)} :
               IF c.exc # None
               THEN /\ threads' = [threads EXCEPT ![t] = Finished(@, c.exc)]
                    /\ UNCHANGED <<nextId, made>>
               ELSE /\ nextId <= MaxConns
                    /\ threads' = [threads EXCEPT ![t] =
                           [@ EXCEPT !.pc = "store", !.built = c.client.id]]
                    /\ nextId' = nextId + 1
                    /\ made' = made \cup {<<c.client.id, threads[t].write>>}
        /\ UNCHANGED <<client_write, client_read>>
        /\ ThreadsIdle

\* The assignment of lines 82 and 87.
Store ==
    \E t \in Threads :
        /\ threads[t].pc = "store"
        /\ SetManager(store_slot(Manager, threads[t].write, Client(threads[t].built)))
        /\ threads' = [threads EXCEPT ![t] =
               [@ EXCEPT !.pc = "return",
                         !.replaced =
                             LET slot == IF threads[t].write THEN client_write
                                         ELSE client_read
                             IN IF slot.id > 0 THEN slot.id ELSE 0]]
        /\ UNCHANGED made
        /\ ThreadsIdle

\* Lines 84, 89: the slot is read again for the value returned.
Return ==
    \E t \in Threads :
        /\ threads[t].pc = "return"
        /\ \E v \in {read_slot(Manager, threads[t].write)} :
               threads' = [threads EXCEPT ![t] =
                   IF v = Deleted THEN Finished(@, "AttributeError")
                   ELSE [Finished(@, None) EXCEPT !.ret = v.id]]
        /\ UNCHANGED <<client_write, client_read, nextId, made>>
        /\ ThreadsIdle

\* Line 126.
CloseIf ==
    \E t \in Threads :
        /\ threads[t].pc = "close_if"
        /\ threads' = [threads EXCEPT ![t] =
               IF CLOSE_CONNECTION THEN [@ EXCEPT !.pc = "read_truth"]
               ELSE Finished(@, None)]
        /\ UNCHANGED <<client_write, client_read, nextId, made>>
        /\ ThreadsIdle

\* Lines 128, 133.
CloseTruth ==
    \E t \in Threads :
        /\ threads[t].pc \in {"read_truth", "write_truth"}
        /\ \E r \in {truth_slot(Manager, threads[t].pc = "write_truth")} :
               threads' = [threads EXCEPT ![t] =
                   IF r = "AttributeError" THEN Finished(@, "AttributeError")
                   ELSE IF r = "skip" THEN [@ EXCEPT !.pc = AfterClose(threads[t].pc)]
                   ELSE [@ EXCEPT !.pc = IF threads[t].pc = "write_truth"
                                         THEN "write_loop" ELSE "read_loop"]]
        /\ UNCHANGED <<client_write, client_read, nextId, made>>
        /\ ThreadsIdle

\* Lines 129-130, 134-135.
CloseLoop ==
    \E t \in Threads :
        /\ threads[t].pc \in {"read_loop", "write_loop"}
        /\ \E r \in {loop_slot(Manager, threads[t].pc = "write_loop")} :
               threads' = [threads EXCEPT ![t] =
                   IF r.exc # None THEN Finished(@, r.exc)
                   ELSE [@ EXCEPT !.pc = AfterClose(threads[t].pc)]]
        /\ UNCHANGED <<client_write, client_read, nextId, made>>
        /\ ThreadsIdle

\* Lines 138, 139.
CloseDel ==
    \E t \in Threads :
        /\ threads[t].pc \in {"del_write", "del_read"}
        /\ \E r \in {del_slot(Manager, threads[t].pc = "del_write")} :
               /\ SetManager(r.m)
               /\ threads' =
                      IF r.exc # None
                      THEN [threads EXCEPT ![t] = Finished(@, r.exc)]
                      ELSE [Clearing(t, threads[t].pc = "del_write") EXCEPT ![t] =
                               [@ EXCEPT !.pc = AfterClose(threads[t].pc)]]
        /\ UNCHANGED made
        /\ ThreadsIdle

\* Lines 140, 141.
CloseSet ==
    \E t \in Threads :
        /\ threads[t].pc \in {"set_write", "set_read"}
        /\ SetManager(clear_slot(Manager, threads[t].pc = "set_write"))
        /\ threads' = [Clearing(t, threads[t].pc = "set_write") EXCEPT ![t] =
               IF threads[t].pc = "set_read" THEN Finished(@, None)
               ELSE [@ EXCEPT !.pc = AfterClose(threads[t].pc)]]
        /\ UNCHANGED made
        /\ ThreadsIdle

NextThreads ==
    Begin \/ Check \/ Connect \/ Store \/ Return
        \/ CloseIf \/ CloseTruth \/ CloseLoop \/ CloseDel \/ CloseSet

SpecThreads == InitThreads /\ [][NextThreads]_vars

\* ------------------------------------------------------------------ claims
SlotOf(write) == IF write THEN client_write ELSE client_read

BothEmpty == client_write = NoneClient /\ client_read = NoneClient

\* The call observed last ran get_client: directly, or as the first statement
\* of a wrapped operation.
RanGet == lastCall.got

\* ... and that get_client had to call connect(), which got as far as building
\* its Sentinel (the connection string parsed).
RanDiscovery == RanGet /\ lastCall.get.connect.called /\ lastCall.get.connect.sentinel.built

\* C1: after close() returns both slots are empty, whatever the eager-close
\* flag and whatever was cached, so that the get_client that follows calls
\* connect() and does not return a cached client.
C1_ResetEmptiesSlots ==
    /\ lastCall.op = "close" => BothEmpty
    /\ (RanGet /\ lastCall.afterClose) => lastCall.get.connect.called

\* The transport errors (ConnectionError and its subclass), the read-only error
\* and the interrupted error.
FatalErrors ==
    {"ConnectionError", "ConnectionResetError", "ReadOnlyError", "ConnectionInterrupted"}

\* C2: a wrapper whose func raises ConnectionError (or a subclass),
\* ReadOnlyError or ConnectionInterrupted calls close() once and raises
\* ConnectionResetError; any other exception leaves it unchanged, with no
\* close(); a func that returns raises nothing.
C2_WrapperClassifies ==
    lastCall.op = "call" =>
        /\ \A i \in 1..Len(lastCall.frames) :
               LET f == lastCall.frames[i]
               IN IF f.raised \in FatalErrors
                  THEN f.closes = 1 /\ f.exc = "ConnectionResetError"
                  ELSE f.closes = 0 /\ f.exc = f.raised
        /\ lastCall.depth = 1 =>
               IF lastCall.raised \in FatalErrors
               THEN lastCall.closes = 1 /\ lastCall.exc = "ConnectionResetError"
               ELSE lastCall.closes = 0 /\ lastCall.exc = lastCall.raised

\* A wrapped operation raised ReadOnlyError: one close(), ConnectionResetError.
C2_Witness ==
    /\ lastCall.op = "call" /\ lastCall.depth = 1
    /\ lastCall.raised = "ReadOnlyError"
    /\ lastCall.exc = "ConnectionResetError" /\ lastCall.closes = 1

\* C3: once a wrapped operation has surfaced ConnectionResetError, the next
\* get_client of either mode queries the monitor again and does not return a
\* client that was cached when the operation failed.
C3_NextGetRediscovers ==
    (RanGet /\ lastCall.staleHit) =>
        /\ lastCall.get.connect.called
        /\ lastCall.get.connect.queries # <<>>
        /\ lastCall.get.exc = None => lastCall.get.ret \notin lastCall.staleFor

\* C4: a get_client that succeeds after another of the same mode, with no
\* close() between them, returns the same client and calls neither the
\* monitor nor the factory.
C4_CachedIdentity ==
    (RanGet /\ lastCall.get.exc = None /\ lastCall.cachedBefore # 0) =>
        /\ lastCall.get.ret = lastCall.cachedBefore
        /\ ~lastCall.get.connect.called
        /\ lastCall.get.connect.queries = <<>>

\* A second get_client of one mode returned the client of the first.
C4_Witness ==
    /\ lastCall.op = "get_client" /\ lastCall.get.exc = None
    /\ lastCall.cachedBefore # 0 /\ lastCall.get.ret = lastCall.cachedBefore

\* C5: a get_client(write=True) that connects asks the monitor for the
\* master, once, and never for the slaves; when that query fails its exception
\* reaches the caller as raised and nothing is built.
C5_WriteAsksPrimaryOnly ==
    (RanDiscovery /\ lastCall.write) =>
        /\ lastCall.get.connect.queries = <<"discover_master">>
        /\ lastCall.get.connect.mon.master.exc # None =>
               /\ lastCall.get.exc = lastCall.get.connect.mon.master.exc
               /\ lastCall.op = "get_client" =>
                      lastCall.exc = lastCall.get.connect.mon.master.exc
               /\ lastCall.get.connect.url = <<>>
               /\ lastCall.get.ret = 0
        /\ lastCall.get.connect.url # <<>> =>
               lastCall.get.connect.endpoint = lastCall.get.connect.mon.master.endpoint

\* A get_client(write=True) whose discover_master raised.
C5_Witness ==
    /\ RanDiscovery /\ lastCall.write /\ lastCall.op = "get_client"
    /\ lastCall.get.connect.mon.master.exc = "MasterNotFoundError"
    /\ lastCall.exc = "MasterNotFoundError"

Elements(seq) == {seq[i] : i \in 1..Len(seq)}

\* C6: a get_client(write=False) that connects uses an endpoint of the slave
\* list when the monitor returns one, and otherwise asks for the master, after
\* the slaves, and uses its endpoint; the empty list itself raises nothing.
C6_ReadPrefersReplica ==
    (RanDiscovery /\ ~lastCall.write) =>
        LET c == lastCall.get.connect
        IN IF c.mon.slaves # <<>>
           THEN /\ c.queries = <<"discover_slaves">>
                /\ c.endpoint \in Elements(c.mon.slaves)
                /\ c.url # <<>>
                /\ c.exc = c.mon.factory
           ELSE /\ c.queries = <<"discover_slaves", "discover_master">>
                /\ c.exc # "IndexError"
                /\ IF c.mon.master.exc # None
                   THEN c.exc = c.mon.master.exc /\ c.url = <<>>
                   ELSE /\ c.endpoint = c.mon.master.endpoint
                        /\ c.url # <<>>
                        /\ c.exc = c.mon.factory

\* A read that found no slave and was given a client for the master's endpoint.
C6_Witness ==
    /\ RanDiscovery /\ ~lastCall.write
    /\ lastCall.get.connect.mon.slaves = <<>>
    /\ lastCall.get.exc = None
    /\ lastCall.get.connect.endpoint = lastCall.get.connect.mon.master.endpoint
    /\ client_read.id = lastCall.get.ret

\* C7: a get_client(write=w) that raises leaves the slot of w empty and its
\* exception reaches the caller; a slot is filled only if connect() built a
\* client for that mode since close() was last called.
C7_NoPartialConnection ==
    /\ (RanGet /\ lastCall.get.exc # None) =>
           /\ SlotOf(lastCall.write) = NoneClient
           /\ lastCall.op = "get_client" => lastCall.exc = lastCall.get.exc
    /\ \A w \in BOOLEAN : SlotOf(w) # NoneClient => w \in builtSince

\* C8: a close() that follows a close() with no get_client between them makes
\* no disconnect() call and leaves the manager as it found it; so does a
\* close() that finds nothing cached.
C8_ResetIdempotent ==
    lastCall.op = "close" =>
        /\ lastCall.afterClose =>
               lastCall.disconnects = {} /\ Slots(Manager) = lastCall.pre
        /\ lastCall.pre = Slots(NoManager) =>
               lastCall.disconnects = {} /\ BothEmpty

\* A second close() in a row, with the flag set, after two clients were built.
C8_Witness ==
    /\ lastCall.op = "close" /\ lastCall.afterClose
    /\ CLOSE_CONNECTION /\ nextId > 2

Pooled(slots) == DisconnectCalls(slots.client_read) \cup DisconnectCalls(slots.client_write)

\* C9: with the eager-close flag set, close() calls disconnect() on every
\* connection in the pool of each cached client and empties the slots; with
\* the flag unset it calls no disconnect() and empties the slots.
C9_EagerClose ==
    lastCall.op = "close" =>
        /\ BothEmpty
        /\ lastCall.disconnects = IF CLOSE_CONNECTION THEN Pooled(lastCall.pre) ELSE {}

\* The defects of a connection string, read off its characters.
SlashAt(s) == {i \in 1..Len(s) : s[i] = "/"}

FirstSlash(s) == CHOOSE i \in SlashAt(s) : \A j \in SlashAt(s) : i <= j

SecondSlash(s) ==
    CHOOSE i \in SlashAt(s) \ {FirstSlash(s)} : \A j \in SlashAt(s) \ {FirstSlash(s)} : i <= j

MissingSegment(s) == Cardinality(SlashAt(s)) < 2

\* The endpoints: the stretches of the second segment between its commas.
EndpointSpans(s) ==
    LET cuts == {FirstSlash(s), SecondSlash(s)}
                    \cup {i \in FirstSlash(s)..SecondSlash(s) : s[i] = ","}
    IN {<<a, b>> \in cuts \X cuts : a < b /\ \A c \in cuts : ~(a < c /\ c < b)}

Colons(s, span) == {i \in (span[1] + 1)..(span[2] - 1) : s[i] = ":"}

IsIntegerText(t) ==
    LET unsigned == IF t # <<>> /\ t[1] \in {"+", "-"} THEN Tail(t) ELSE t
    IN /\ unsigned # <<>>
       /\ \A i \in 1..Len(unsigned) :
              unsigned[i] \in {"0", "1", "2", "3", "4", "5", "6", "7", "8", "9"}

EmptyEndpointList(s) == ~MissingSegment(s) /\ SecondSlash(s) = FirstSlash(s) + 1

MalformedEndpoint(s) ==
    /\ ~MissingSegment(s)
    /\ \E span \in EndpointSpans(s) : Cardinality(Colons(s, span)) # 1

NonIntegerPort(s) ==
    /\ ~MissingSegment(s)
    /\ \E span \in EndpointSpans(s) :
           /\ Cardinality(Colons(s, span)) = 1
           /\ LET colon == CHOOSE i \in Colons(s, span) : TRUE
              IN ~IsIntegerText(SubSeq(s, colon + 1, span[2] - 1))

\* C10: parse_connection_string returns the fields a descriptor was written
\* from, endpoints in order and ports as integers; it raises
\* ImproperlyConfigured, and returns nothing, when a segment is missing, the
\* endpoint list is empty, an endpoint is not host:port or a port is no integer.
C10_ParseTotalOrFails ==
    parsed # NotParsed =>
        /\ \A f \in origin :
               parsed = [exc |-> None, master_name |-> f.master_name,
                         sentinel_hosts |-> f.sentinel_hosts, db |-> f.db]
        /\ (MissingSegment(constring) \/ EmptyEndpointList(constring)
                \/ MalformedEndpoint(constring) \/ NonIntegerPort(constring))
               => parsed = Raised("ImproperlyConfigured")
        /\ parsed.exc # None => parsed = Raised("ImproperlyConfigured")

\* A descriptor of two endpoints was parsed back into its fields.
C10_Witness ==
    /\ parsed # NotParsed
    /\ \E f \in origin : Len(f.sentinel_hosts) = 2 /\ parsed.sentinel_hosts = f.sentinel_hosts

\* The fields of a connection string, read off its characters: the text before
\* the first '/', the hosts of the second segment, the text after the second '/'.
ExtraSegment(s) == Cardinality(SlashAt(s)) > 2

EmptyName(s) == ~MissingSegment(s) /\ FirstSlash(s) = 1

EmptyHost(s) ==
    /\ ~MissingSegment(s)
    /\ \E span \in EndpointSpans(s) :
           span[1] + 1 < span[2] /\ s[span[1] + 1] = ":"

EmptyDb(s) ==
    /\ ~MissingSegment(s)
    /\ \/ SecondSlash(s) = Len(s)
       \/ s[SecondSlash(s) + 1] = "/"

\* C11: parse_connection_string returns fields only for a string of exactly
\* three '/'-separated segments with a non-empty name, non-empty hosts and a
\* non-empty db; a fourth segment, an empty name, an empty host or an empty db
\* raises ImproperlyConfigured and yields no fields.
C11_ThreeNonEmptySegments ==
    parsed # NotParsed =>
        /\ (ExtraSegment(constring) \/ EmptyName(constring)
                \/ EmptyHost(constring) \/ EmptyDb(constring))
               => parsed = Raised("ImproperlyConfigured")
        /\ parsed.exc = None =>
               /\ Len(split(constring, "/")) = 3
               /\ parsed.master_name # <<>>
               /\ parsed.db # <<>>
               /\ \A i \in 1..Len(parsed.sentinel_hosts) : parsed.sentinel_hosts[i][1] # <<>>

\* A connection url taken apart again: redis://[auth@]host:port/db
Scheme == <<"r", "e", "d", "i", "s", ":", "/", "/">>

UrlParts(u) ==
    LET rest == SubSeq(u, Len(Scheme) + 1, Len(u))
        at == split(rest, "@")
        segments == split(at[Len(at)], "/")
        hostport == split(segments[1], ":")
    IN [scheme |-> SubSeq(u, 1, Len(Scheme)),
        auth |-> IF Len(at) > 1 THEN <<at[1]>> ELSE <<>>,
        hostport |-> hostport,
        db |-> Tail(segments)]

\* The text of a connection string after its second '/'.
DbText(s) == SubSeq(s, SecondSlash(s) + 1, Len(s))

\* The endpoints the monitor named in reply to the queries of one connect().
Answered(c) ==
    IF c.queries = <<"discover_slaves">> THEN Elements(c.mon.slaves)
    ELSE {c.mon.master.endpoint}

\* C12: the url handed to connection_factory.connect carries the host and port
\* the monitor answered with, the db of the connection string unchanged, and
\* ":password@" exactly when PASSWORD holds a secret; for cluster1/h1:1,h2:2/3
\* with master (h1,1) and slaves [(h3,3)] a write connects to redis://h1:1/3
\* and a read to redis://h3:3/3.  The sentinel endpoints of the connection
\* string are not what the client is connected to.
C12_LocatorComposition ==
    (RanGet /\ lastCall.get.connect.url # <<>>) =>
        LET c == lastCall.get.connect
            u == UrlParts(c.url)
        IN /\ u.scheme = Scheme
           /\ Len(u.hostport) = 2
           /\ IntAccepts(u.hostport[2])
           /\ <<u.hostport[1], int(u.hostport[2])>> \in Answered(c)
           /\ <<u.hostport[1], int(u.hostport[2])>> = c.endpoint
           /\ c.endpoint \notin Elements(c.sentinel.hosts) =>
                  <<u.hostport[1], int(u.hostport[2])>> \notin Elements(c.sentinel.hosts)
           /\ u.db = <<DbText(connection_string)>>
           /\ u.auth = IF PASSWORD.set /\ PASSWORD.value # <<>>
                       THEN <<<<":">> \o PASSWORD.value>>
                       ELSE <<>>
           /\ c.sentinel.password = PASSWORD
           /\ (connection_string = Cluster1 /\ ~PASSWORD.set) =>
                  /\ (lastCall.write /\ c.mon.master.endpoint = <<<<"h", "1">>, 1>>) =>
                         c.url = Scheme \o <<"h", "1", ":", "1", "/", "3">>
                  /\ (~lastCall.write /\ c.mon.slaves = <<<<<<"h", "3">>, 3>>>>) =>
                         c.url = Scheme \o <<"h", "3", ":", "3", "/", "3">>

\* The read of the scenario: slaves [(h3,3)], a password set, a client built
\* from redis://:pw@h3:3/3.
C12_Witness ==
    /\ RanGet /\ ~lastCall.write /\ lastCall.get.exc = None
    /\ connection_string = Cluster1
    /\ lastCall.get.connect.mon.slaves = <<<<<<"h", "3">>, 3>>>>
    /\ PASSWORD = Option(<<"p", "w">>)
    /\ lastCall.get.connect.url =
           Scheme \o <<":", "p", "w", "@", "h", "3", ":", "3", "/", "3">>
    /\ client_read.id = lastCall.get.ret

\* C13: get_client(write=True), whether it returns or raises, leaves
\* _client_read as it was, and get_client(write=False) leaves _client_write as
\* it was; so does the get_client of a wrapped operation that no wrapper
\* followed with close().  No call changes _connection_string.
C13_SlotsIndependent ==
    [][/\ (lastCall'.op = "get_client" /\ lastCall'.write) => client_read' = client_read
       /\ (lastCall'.op = "get_client" /\ ~lastCall'.write) => client_write' = client_write
       /\ (lastCall'.op = "call" /\ lastCall'.closes = 0 /\ lastCall'.write)
              => client_read' = client_read
       /\ (lastCall'.op = "call" /\ lastCall'.closes = 0 /\ ~lastCall'.write)
              => client_write' = client_write
       /\ connection_string' = connection_string]_vars

\* get_client(write=True) built a client while _client_read held another.
C13_Witness ==
    /\ lastCall.op = "get_client" /\ lastCall.write
    /\ lastCall.get.connect.client # NoneClient
    /\ client_write = lastCall.get.connect.client
    /\ client_read # NoneClient /\ client_read.id # client_write.id

\* C14: when a wrapped operation calls another wrapped operation of the same
\* instance and the inner one fails with ConnectionError (or a subclass),
\* ReadOnlyError or ConnectionInterrupted, close() is called once during the
\* outer call, by the innermost wrapper, and the ConnectionResetError that
\* wrapper raised passes the enclosing wrappers without another close().
C14_NestedResetsOnce ==
    (lastCall.op = "call" /\ lastCall.depth >= 2 /\ lastCall.raised \in FatalErrors) =>
        /\ lastCall.closes = 1
        /\ lastCall.exc = "ConnectionResetError"
        /\ lastCall.frames[1].closes = 1
        /\ \A i \in 2..Len(lastCall.frames) :
               /\ lastCall.frames[i].raised = "ConnectionResetError"
               /\ lastCall.frames[i].closes = 0

\* A connection string with one of the defects parse_connection_string refuses.
Malformed(s) ==
    MissingSegment(s) \/ EmptyEndpointList(s) \/ MalformedEndpoint(s) \/ NonIntegerPort(s)

Assigned(t, write) ==
    /\ threads[t].op = "get_client" /\ threads[t].write = write
    /\ threads[t].sawEmpty /\ threads[t].built # 0
    /\ threads[t].pc \in {"return", "done"}
    /\ ~threads[t].cleared

\* C16: nothing serializes the check of a slot and the assignment to it.  Two
\* threads in get_client with the same write value that both find the slot
\* empty both call connect(): two clients are built, the later assignment
\* overwrites the earlier one, and afterwards the slot holds at most one of
\* the two, the one assigned last.
C16_CheckThenSetRace ==
    \A write \in BOOLEAN : \A t, u \in Threads :
        (t # u /\ Assigned(t, write) /\ Assigned(u, write) /\ threads[u].replaced # 0) =>
            /\ threads[t].built # threads[u].built
            /\ {<<threads[t].built, write>>, <<threads[u].built, write>>} \subseteq made
            /\ threads[u].replaced = threads[t].built
            /\ threads[t].replaced = 0
            /\ SlotOf(write) \in {NoneClient, Deleted}
                   \/ SlotOf(write).id = threads[u].built
            /\ client_write.id # threads[t].built
            /\ client_read.id # threads[t].built

\* Both threads have returned from get_client(write=True); two clients were
\* built and _client_write holds the second of them only.
C16_Witness ==
    /\ Assigned("t1", TRUE) /\ Assigned("t2", TRUE)
    /\ threads["t1"].pc = "done" /\ threads["t2"].pc = "done"
    /\ threads["t1"].built # threads["t2"].built
    /\ threads["t2"].replaced = threads["t1"].built
    /\ client_write.id = threads["t2"].built
    /\ threads["t1"].exc = None /\ threads["t2"].exc = None

====
